---- MODULE Spec2Model ----
(***************************************************************************)
(* EchoMind personalization memory (qdrant_manager.py): the phrase store,  *)
(* the context similarity retriever, the frequency aggregator and the      *)
(* personalization summarizer, as one state machine.                       *)
(*                                                                         *)
(* The persistent collection (its configuration and its points) survives   *)
(* a process restart; the module globals (_point_counter, the interpreter's*)
(* string-hash seed) do not.  Every public function of the module is one   *)
(* action; what the external collaborators answer (the embedding provider, *)
(* the storage I/O, the order of equally scored hits) is an input of the   *)
(* action.  Calls are synchronous: a call leaves its inputs and outcome in *)
(* `last`, the caller takes the result (TakeResult) and only then makes    *)
(* the next call.                                                          *)
(***************************************************************************)
EXTENDS Integers, Sequences, FiniteSets, TLC

VARIABLES
    collection,       \* configuration of QDRANT_COLLECTION on disk, or NoCollection
    points,           \* the points of the collection: point id -> [vector, payload]
    _point_counter,   \* module global: child_id -> last sequence number handed out
    hash_seed,        \* the running interpreter's string-hash seed
    clock,            \* wall clock read by datetime.now()
    stored_log,       \* history: the points of every upsert that completed
    last,             \* the call the caller is looking at: operation, inputs,
                      \* outcome; Idle between two calls
    session,          \* st.session_state of the application's browser session
    in_flight         \* child_id -> the frame of the store_phrase call a thread
                      \* of the process is making for that child: position, locals

vars == <<collection, points, _point_counter, hash_seed, clock, stored_log, last,
          session, in_flight>>

----------------------------------------------------------------------------
(* Bounds of the model *)

MaxStores == 2        \* store_phrase calls explored in one behaviour
ModelDim == 2         \* vector length used in place of the provider's 768
IdBits == 2           \* point ids are reduced modulo 2^IdBits in place of 2^31
MaxFetch == 5         \* longest fetched sample given to the ranking
MaxSeq == 4           \* largest sequence number given to the id derivation
MaxUserStores == 2    \* store_phrase calls of one user among the concurrent calls
MaxRecords == 5       \* records of a collection filled before the process started
MaxCalls == 6         \* _get_next_point_id calls made for one child in one process

(* Program constants *)

QDRANT_COLLECTION == "echomind_phrases"
EMBEDDING_DIM == ModelDim
LegacyDim == EMBEDDING_DIM + 1      \* dimension of a collection left by another build
IdModulus == 2 ^ IdBits
CHILD_ID == "demo_child"

UserSeq == <<CHILD_ID, "child_b">>
Users == {UserSeq[i] : i \in 1..Len(UserSeq)}
CategorySeq == <<"Body & Needs", "Help & Safety">>
Categories == {CategorySeq[i] : i \in 1..Len(CategorySeq)}
Phrases == {"a", "b"}
RankPhrases == {"a", "b", "c"}

(* Context maps handed in by the caller; a missing key is defaulted. *)
EmptyContext == [k \in {} |-> ""]
MorningContext == [time_of_day |-> "morning", location |-> "home"]
ContextSeq == <<EmptyContext, MorningContext>>
Contexts == {ContextSeq[i] : i \in 1..Len(ContextSeq)}
StoreContexts == {MorningContext}       \* the situations phrases are selected in

(* what the application's clock and location give during the session: a     *)
(* Friday morning, no GPS position                                          *)
AppSituation ==
    [time_of_day |-> "morning", day_of_week |-> "Friday",
     location |-> "Location not available"]

Seeds == {0, 1}
Limits == {1, 3}
ProviderOutcomes == {"ok", "raise", "empty"}
IoOutcomes == {"ok", "fail"}                 \* storage I/O of a write or a listing
SearchOutcomes == {"ok", "fail", "noattr"}   \* of client.search; "noattr": the
                                             \* installed client has no search()
(* the search outcome is an input only of a call that gets as far as searching *)
SearchOutcomesAfter(provider) == IF provider = "ok" THEN SearchOutcomes ELSE {"unused"}

Idle == [op |-> "idle"]

(* no thread is inside store_phrase *)
NoFrame == [pc |-> "idle", returned |-> 0]
NoCalls == [child_id \in Users |-> NoFrame]

NoCollection == [exists |-> FALSE, size |-> 0, distance |-> "none"]
COSINE == "Cosine"

----------------------------------------------------------------------------
(* Python values *)

None == [some |-> FALSE, val |-> <<>>]
Some(v) == [some |-> TRUE, val |-> v]
Falsy(opt) == (~opt.some) \/ opt.val = <<>>

DictGet(d, key, default) == IF key \in DOMAIN d THEN d[key] ELSE default

Return(v) == [kind |-> "return", val |-> v, exc |-> "none"]
Raise(e) == [kind |-> "raise", val |-> <<>>, exc |-> e]

Min(a, b) == IF a <= b THEN a ELSE b

RECURSIVE Join(_, _)
Join(parts, sep) ==
    IF parts = <<>> THEN ""
    ELSE IF Len(parts) = 1 THEN parts[1]
    ELSE parts[1] \o sep \o Join(Tail(parts), sep)

Range(f) == {f[i] : i \in DOMAIN f}

----------------------------------------------------------------------------
(* The context string, built by store_phrase and by get_similar_contexts *)

store_context_str(category, context) ==
    "Category: " \o category \o ". "
    \o "Time of day: " \o DictGet(context, "time_of_day", "unknown") \o ". "
    \o "Day: " \o DictGet(context, "day_of_week", "unknown") \o ". "
    \o "Location: " \o DictGet(context, "location", "unknown")

(* a variant whose default for a missing key is the empty string *)
query_context_str_blank_default(category, context) ==
    "Category: " \o category \o ". "
    \o "Time of day: " \o DictGet(context, "time_of_day", "") \o ". "
    \o "Day: " \o DictGet(context, "day_of_week", "") \o ". "
    \o "Location: " \o DictGet(context, "location", "")

query_context_str(category, context) ==
    "Category: " \o category \o ". "
    \o "Time of day: " \o DictGet(context, "time_of_day", "unknown") \o ". "
    \o "Day: " \o DictGet(context, "day_of_week", "unknown") \o ". "
    \o "Location: " \o DictGet(context, "location", "unknown")

----------------------------------------------------------------------------
(* The embedding provider (genai.embed_content), an external collaborator:  *)
(* a working call answers a vector of EMBEDDING_DIM components, each +1 or  *)
(* -1, that depends on the text alone; a call may also raise or answer an   *)
(* empty embedding.                                                         *)

(* the situations whose context string the provider is asked to embed *)
EmbeddedSeq == ContextSeq \o <<AppSituation>>

TextCode(text) ==
    CHOOSE k \in 0..(Len(CategorySeq) * Len(EmbeddedSeq) - 1) :
        store_context_str(CategorySeq[(k % Len(CategorySeq)) + 1],
                          EmbeddedSeq[(k \div Len(CategorySeq)) + 1]) = text

ProviderVector(text) ==
    [i \in 1..EMBEDDING_DIM |->
        IF (TextCode(text) \div (2 ^ (i - 1))) % 2 = 0 THEN 1 ELSE -1]

embed_content(provider, text) ==
    IF provider = "raise" THEN Raise("ProviderError")
    ELSE IF provider = "empty" THEN Return(<<>>)
    ELSE Return(ProviderVector(text))

(* a variant of the dummy vector that has no components *)
ZeroVectorOfNoLength == <<>>

ZeroVector == [i \in 1..EMBEDDING_DIM |-> 0]

(* a variant that answers the zero vector in place of None *)
generate_embedding_zero_on_error(provider, text) ==
    LET response == embed_content(provider, text)
    IN  IF response.kind = "raise" THEN Some(ZeroVector) ELSE Some(response.val)

(* a variant that asks the provider a second time after an exception *)
embed_attempts_retry(provider) == IF provider = "raise" THEN 2 ELSE 1

(* generate_embedding: the calls it makes to the provider: one, in the try  *)
(* block, whatever the provider answers                                     *)
embed_attempts(provider) == 1

(* generate_embedding: the embedding, or None when the provider raised *)
generate_embedding(provider, text) ==
    LET response == embed_content(provider, text)
    IN  IF response.kind = "raise" THEN None ELSE Some(response.val)

----------------------------------------------------------------------------
(* Point ids: hash((child_id, point_id)) % 2**31, at the model's width.     *)
(* The hash of a string depends on the interpreter's hash seed; the hash of *)
(* the tuple mixes the string's hash and the sequence number.               *)

UserIndex(child_id) == CHOOSE i \in 1..Len(UserSeq) : UserSeq[i] = child_id

StrHash(seed, child_id) == UserIndex(child_id) + Len(UserSeq) * seed

TupleHash(seed, child_id, point_id) == 3 * StrHash(seed, child_id) + point_id

PointId(seed, child_id, point_id) == TupleHash(seed, child_id, point_id) % IdModulus

(* a variant with one sequence shared by all the children it knows *)
_get_next_point_id_shared(counter, child_id) ==
    LET started == IF child_id \in DOMAIN counter THEN counter
                   ELSE (child_id :> 0) @@ counter
    IN  [u \in DOMAIN started |-> started[u] + 1]

(* _get_next_point_id: the counter after the call; the id returned is its  *)
(* entry for child_id.                                                      *)
_get_next_point_id(counter, child_id) ==
    LET started == IF child_id \in DOMAIN counter THEN counter
                   ELSE (child_id :> 0) @@ counter
    IN  [started EXCEPT ![child_id] = @ + 1]

----------------------------------------------------------------------------
(* The Qdrant client (local mode), as the code uses it *)

Dot(a, b) ==
    LET S[i \in 0..Len(a)] == IF i = 0 THEN 0 ELSE S[i - 1] + a[i] * b[i]
    IN  S[Len(a)]

Isqrt(n) == CHOOSE r \in 0..n : r * r <= n /\ n < (r + 1) * (r + 1)

(* Cosine similarity in hundredths; 0 when either vector has no direction *)
CosineScore(query, vector) ==
    LET norms == Dot(query, query) * Dot(vector, vector)
    IN  IF norms = 0 THEN 0
        ELSE (100 * Dot(query, vector)) \div Isqrt(norms)

FieldCondition(key, value) == [key |-> key, value |-> value]

FilterMatches(payload, must) ==
    \A i \in 1..Len(must) : payload[must[i].key] = must[i].value

(* client.upsert: the exception it raises, or "none" *)
UpsertError(coll, vector, io) ==
    IF io # "ok" THEN "StoreUnavailable"
    ELSE IF ~coll.exists THEN "CollectionNotFound"
    ELSE IF Len(vector) # coll.size THEN "DimensionMismatch"
    ELSE "none"

(* a variant that acknowledges the point without keeping it *)
client_upsert_dropped(pts, point) == pts

(* client.upsert: the points afterwards; a point of the same id is replaced *)
client_upsert(pts, point) ==
    (point.id :> [vector |-> point.vector, payload |-> point.payload]) @@ pts

(* client.search: the exception it raises, or "none" *)
SearchError(coll, query_vector, io) ==
    IF io = "noattr" THEN "AttributeError"
    ELSE IF io # "ok" THEN "StoreUnavailable"
    ELSE IF ~coll.exists THEN "CollectionNotFound"
    ELSE IF Len(query_vector) # coll.size THEN "DimensionMismatch"
    ELSE "none"

(* client.search: the rankings it may answer: the `limit` best matching     *)
(* points by descending score, equally scored points in any order.          *)
client_search(pts, query_vector, must, limit) ==
    LET matching == {id \in DOMAIN pts : FilterMatches(pts[id].payload, must)}
        n == Min(limit, Cardinality(matching))
        score(id) == CosineScore(query_vector, pts[id].vector)
    IN  {hits \in [1..n -> matching] :
            /\ \A i, j \in 1..n : i < j =>
                   hits[i] # hits[j] /\ score(hits[i]) >= score(hits[j])
            /\ \A id \in matching \ Range(hits) :
                   \A i \in 1..n : score(hits[i]) >= score(id)}

Hit(pts, query_vector, id) ==
    [id |-> id, payload |-> pts[id].payload,
     score |-> CosineScore(query_vector, pts[id].vector)]

----------------------------------------------------------------------------
(* init_qdrant: creates the collection when no collection of that name      *)
(* exists; an exception of the client is re-raised.                         *)

NewCollection == [exists |-> TRUE, size |-> EMBEDDING_DIM, distance |-> COSINE]

(* a variant that creates the collection anew whenever the listing worked *)
init_qdrant_recreate(coll, pts, io) ==
    IF io # "ok" THEN
        [collection |-> coll, points |-> pts, out |-> Raise("StoreUnavailable")]
    ELSE
        [collection |-> NewCollection, points |-> <<>>, out |-> Return(None)]

init_qdrant(coll, pts, io) ==
    IF io # "ok" THEN
        [collection |-> coll, points |-> pts, out |-> Raise("StoreUnavailable")]
    ELSE IF ~coll.exists THEN
        [collection |-> NewCollection, points |-> pts, out |-> Return(None)]
    ELSE
        [collection |-> coll, points |-> pts, out |-> Return(None)]

InitQdrant ==
    /\ last = Idle
    /\ \E io \in IoOutcomes :
        LET r == init_qdrant(collection, points, io)
        IN  /\ collection' = r.collection
            /\ points' = r.points
            /\ last' = [op |-> "init_qdrant", io |-> io, before |-> collection,
                        points_before |-> points, out |-> r.out]
            /\ UNCHANGED <<_point_counter, hash_seed, clock, stored_log, session,
                   in_flight>>

----------------------------------------------------------------------------
(* store_phrase *)

Payload(child_id, category, phrase, context, context_str, now) ==
    [child_id |-> child_id,
     category |-> category,
     phrase |-> phrase,
     timestamp |-> now,
     time_of_day |-> DictGet(context, "time_of_day", "unknown"),
     day_of_week |-> DictGet(context, "day_of_week", "unknown"),
     location |-> DictGet(context, "location", "unknown"),
     context_str |-> context_str]

(* a variant that gives the sequence number back when the upsert raises *)
store_phrase_number_returned(child_id, category, phrase, context, provider, io) ==
    LET context_str == store_context_str(category, context)
        generated == generate_embedding(provider, context_str)
        embedding == IF Falsy(generated) THEN ZeroVector ELSE generated.val
        payload == Payload(child_id, category, phrase, context, context_str, clock)
        counter == _get_next_point_id(_point_counter, child_id)
        point_id == counter[child_id]
        point == [id |-> PointId(hash_seed, child_id, point_id),
                  vector |-> embedding, payload |-> payload]
        err == UpsertError(collection, embedding, io)
    IN  [counter |-> IF err = "none" THEN counter ELSE _point_counter,
         point |-> point,
         embed_calls |-> embed_attempts(provider),
         upsert |-> err,
         points |-> IF err = "none" THEN client_upsert(points, point) ELSE points,
         out |-> IF err = "none" THEN Return(TRUE) ELSE Return(FALSE)]

store_phrase(child_id, category, phrase, context, provider, io) ==
    LET context_str == store_context_str(category, context)
        generated == generate_embedding(provider, context_str)
        embedding == IF Falsy(generated) THEN ZeroVector ELSE generated.val
        payload == Payload(child_id, category, phrase, context, context_str, clock)
        counter == _get_next_point_id(_point_counter, child_id)
        point_id == counter[child_id]
        point == [id |-> PointId(hash_seed, child_id, point_id),
                  vector |-> embedding, payload |-> payload]
        err == UpsertError(collection, embedding, io)
    IN  [counter |-> counter,
         point |-> point,
         embed_calls |-> embed_attempts(provider),
         upsert |-> err,
         points |-> IF err = "none" THEN client_upsert(points, point) ELSE points,
         out |-> IF err = "none" THEN Return(TRUE) ELSE Return(FALSE)]

StorePhrase ==
    /\ last = Idle
    /\ clock < MaxStores
    /\ \E child_id \in Users, category \in Categories, phrase \in Phrases,
          context \in StoreContexts, provider \in ProviderOutcomes,
          io \in IoOutcomes :
        LET r == store_phrase(child_id, category, phrase, context, provider, io)
        IN  /\ points' = r.points
            /\ _point_counter' = r.counter
            /\ clock' = clock + 1
            /\ stored_log' = IF r.upsert = "none" THEN Append(stored_log, r.point)
                             ELSE stored_log
            /\ last' = [op |-> "store_phrase", child_id |-> child_id,
                        category |-> category, phrase |-> phrase,
                        context |-> context, provider |-> provider, io |-> io,
                        embed_calls |-> r.embed_calls, upsert |-> r.upsert,
                        point |-> r.point, out |-> r.out]
            /\ UNCHANGED <<collection, hash_seed, session, in_flight>>

----------------------------------------------------------------------------
(* A process restart: the module globals are built anew, the disk is kept *)

Restart ==
    /\ last = Idle
    /\ \E seed \in Seeds : hash_seed' = seed
    /\ _point_counter' = <<>>
    /\ last' = [op |-> "restart"]
    /\ UNCHANGED <<collection, points, clock, stored_log, session,
                   in_flight>>

----------------------------------------------------------------------------
(* get_similar_contexts *)

(* both handlers (except AttributeError, except Exception) answer [] *)
similar_on_error(exc) == Return(<<>>)

SimilarEntry(hit) ==
    [phrase |-> hit.payload.phrase,
     category |-> hit.payload.category,
     time_of_day |-> hit.payload.time_of_day,
     similarity_score |-> hit.score]

(* a variant that filters on the category and forgets the child *)
similar_filter_by_category(child_id, category) ==
    <<FieldCondition("category", category)>>

similar_filter(child_id, category) == <<FieldCondition("child_id", child_id)>>

(* a variant that searches without the limit *)
get_similar_contexts_unlimited(child_id, category, context, limit, provider, io) ==
    LET context_str == query_context_str(category, context)
        embedding == generate_embedding(provider, context_str)
    IN  IF Falsy(embedding) THEN
            {[out |-> Return(<<>>), embed_calls |-> embed_attempts(provider), search |-> "none",
              query_vector |-> <<>>, hits |-> <<>>]}
        ELSE
            LET err == SearchError(collection, embedding.val, io)
            IN  IF err # "none" THEN
                    {[out |-> similar_on_error(err), embed_calls |-> embed_attempts(provider),
                      search |-> err, query_vector |-> embedding.val, hits |-> <<>>]}
                ELSE
                    {[out |-> Return([i \in 1..Len(ids) |->
                                 SimilarEntry(Hit(points, embedding.val, ids[i]))]),
                      embed_calls |-> embed_attempts(provider), search |-> "ok",
                      query_vector |-> embedding.val, hits |-> ids] :
                        ids \in client_search(points, embedding.val,
                                              similar_filter(child_id, category),
                                              Cardinality(DOMAIN points))}

(* the outcomes the call may have *)
get_similar_contexts(child_id, category, context, limit, provider, io) ==
    LET context_str == query_context_str(category, context)
        embedding == generate_embedding(provider, context_str)
    IN  IF Falsy(embedding) THEN
            {[out |-> Return(<<>>), embed_calls |-> embed_attempts(provider), search |-> "none",
              query_vector |-> <<>>, hits |-> <<>>]}
        ELSE
            LET err == SearchError(collection, embedding.val, io)
            IN  IF err # "none" THEN
                    {[out |-> similar_on_error(err), embed_calls |-> embed_attempts(provider),
                      search |-> err, query_vector |-> embedding.val, hits |-> <<>>]}
                ELSE
                    {[out |-> Return([i \in 1..Len(ids) |->
                                 SimilarEntry(Hit(points, embedding.val, ids[i]))]),
                      embed_calls |-> embed_attempts(provider), search |-> "ok",
                      query_vector |-> embedding.val, hits |-> ids] :
                        ids \in client_search(points, embedding.val,
                                              similar_filter(child_id, category), limit)}

GetSimilarContexts ==
    /\ last = Idle
    /\ \E child_id \in Users, category \in Categories, context \in Contexts,
       limit \in Limits, provider \in ProviderOutcomes :
      \E io \in SearchOutcomesAfter(provider) :
        \E r \in get_similar_contexts(child_id, category, context, limit, provider, io) :
            /\ last' = [op |-> "get_similar_contexts", child_id |-> child_id,
                        category |-> category, context |-> context, limit |-> limit,
                        provider |-> provider, io |-> io,
                        embed_calls |-> r.embed_calls, search |-> r.search,
                        query_vector |-> r.query_vector, hits |-> r.hits,
                        out |-> r.out]
            /\ UNCHANGED <<collection, points, _point_counter, hash_seed, clock,
                           stored_log, session, in_flight>>

----------------------------------------------------------------------------
(* get_top_phrases_in_category *)

(* phrase_counts: the distinct non-empty phrases in first-seen order *)
RECURSIVE FirstSeen(_)
FirstSeen(fetched) ==
    IF fetched = <<>> THEN <<>>
    ELSE LET front == FirstSeen(SubSeq(fetched, 1, Len(fetched) - 1))
             phrase == fetched[Len(fetched)]
         IN  IF phrase = "" \/ phrase \in Range(front) THEN front
             ELSE Append(front, phrase)

PhraseCount(fetched, phrase) == Cardinality({i \in 1..Len(fetched) : fetched[i] = phrase})

(* sorted(..., key=count, reverse=True): stable, so equal counts keep their order *)
RECURSIVE SortedByCount(_, _)
SortedByCount(items, fetched) ==
    IF items = <<>> THEN <<>>
    ELSE LET front == SortedByCount(SubSeq(items, 1, Len(items) - 1), fetched)
             x == items[Len(items)]
             ahead == {i \in 1..Len(front) :
                          PhraseCount(fetched, front[i]) >= PhraseCount(fetched, x)}
             k == Cardinality(ahead)
         IN  SubSeq(front, 1, k) \o <<x>> \o SubSeq(front, k + 1, Len(front))

(* a variant that keeps the first-seen order and does not sort *)
top_phrases_of_unsorted(fetched, limit) ==
    LET ranked == FirstSeen(fetched)
    IN  SubSeq(ranked, 1, Min(limit, Len(ranked)))

top_phrases_of(fetched, limit) ==
    LET ranked == SortedByCount(FirstSeen(fetched), fetched)
    IN  SubSeq(ranked, 1, Min(limit, Len(ranked)))

(* a variant whose handler lets the error through *)
top_on_error_reraise(exc) == Raise(exc)

(* except Exception: the error is printed and [] is returned *)
top_on_error(exc) == Return(<<>>)

(* a variant that filters on the child and forgets the category *)
top_filter_by_child(child_id, category) == <<FieldCondition("child_id", child_id)>>

top_filter(child_id, category) ==
    <<FieldCondition("child_id", child_id), FieldCondition("category", category)>>

(* a variant that fetches `limit` records only *)
get_top_phrases_not_oversampled(child_id, category, limit, io) ==
    LET err == SearchError(collection, ZeroVector, io)
    IN  IF err # "none" THEN
            {[out |-> top_on_error(err), search |-> err, hits |-> <<>>]}
        ELSE
            {[out |-> Return(top_phrases_of(
                         [i \in 1..Len(ids) |-> points[ids[i]].payload.phrase], limit)),
              search |-> "ok", hits |-> ids] :
                ids \in client_search(points, ZeroVector,
                                      top_filter(child_id, category), limit)}

get_top_phrases_in_category(child_id, category, limit, io) ==
    LET err == SearchError(collection, ZeroVector, io)
    IN  IF err # "none" THEN
            {[out |-> top_on_error(err), search |-> err, hits |-> <<>>]}
        ELSE
            {[out |-> Return(top_phrases_of(
                         [i \in 1..Len(ids) |-> points[ids[i]].payload.phrase], limit)),
              search |-> "ok", hits |-> ids] :
                ids \in client_search(points, ZeroVector,
                                      top_filter(child_id, category), limit * 5)}

(* a variant that draws a sequence number for the child it reads for *)
GetTopPhrasesCounting ==
    /\ last = Idle
    /\ \E child_id \in Users, category \in Categories, limit \in Limits,
       io \in SearchOutcomes :
        \E r \in get_top_phrases_in_category(child_id, category, limit, io) :
            /\ last' = [op |-> "get_top_phrases_in_category", child_id |-> child_id,
                        category |-> category, limit |-> limit, io |-> io,
                        search |-> r.search, hits |-> r.hits, out |-> r.out]
            /\ _point_counter' = _get_next_point_id(_point_counter, child_id)
            /\ UNCHANGED <<collection, points, hash_seed, clock, stored_log,
                           session, in_flight>>

GetTopPhrases ==
    /\ last = Idle
    /\ \E child_id \in Users, category \in Categories, limit \in Limits,
       io \in SearchOutcomes :
        \E r \in get_top_phrases_in_category(child_id, category, limit, io) :
            /\ last' = [op |-> "get_top_phrases_in_category", child_id |-> child_id,
                        category |-> category, limit |-> limit, io |-> io,
                        search |-> r.search, hits |-> r.hits, out |-> r.out]
            /\ UNCHANGED <<collection, points, _point_counter, hash_seed, clock,
                           stored_log, session, in_flight>>

----------------------------------------------------------------------------
(* get_personalization_context *)

FALLBACK ==
    "This is the child's first time in this category or context. "
    \o "Suggest clear, simple phrases based on the category."

SimilarSentence(phrases) ==
    "In similar situations, this child has said: " \o Join(phrases, ", ") \o ". "

FrequentSentence(phrases) ==
    "This child frequently uses these phrases in this category: "
    \o Join(phrases, ", ") \o ". "

PhrasesFromSimilar(similar) ==
    LET kept == SelectSeq(similar, LAMBDA e : e.phrase # "")
    IN  [i \in 1..Len(kept) |-> kept[i].phrase]

(* a variant without the first-time fallback *)
build_personalization_no_fallback(similar, top_phrases) ==
    LET from_similar == PhrasesFromSimilar(similar)
        first == IF similar # <<>> /\ from_similar # <<>>
                 THEN SimilarSentence(from_similar) ELSE ""
        second == IF top_phrases # <<>> THEN FrequentSentence(top_phrases) ELSE ""
    IN  first \o second

(* a variant that puts the frequent phrases first *)
build_personalization_frequent_first(similar, top_phrases) ==
    LET from_similar == PhrasesFromSimilar(similar)
        first == IF similar # <<>> /\ from_similar # <<>>
                 THEN SimilarSentence(from_similar) ELSE ""
        second == IF top_phrases # <<>> THEN FrequentSentence(top_phrases) ELSE ""
        personalization == second \o first
    IN  IF personalization = "" THEN FALLBACK ELSE personalization

(* the body of the try block, given what the two calls answered *)
build_personalization(similar, top_phrases) ==
    LET from_similar == PhrasesFromSimilar(similar)
        first == IF similar # <<>> /\ from_similar # <<>>
                 THEN SimilarSentence(from_similar) ELSE ""
        second == IF top_phrases # <<>> THEN FrequentSentence(top_phrases) ELSE ""
        personalization == first \o second
    IN  IF personalization = "" THEN FALLBACK ELSE personalization

(* a variant whose handler lets the error through *)
personalization_on_error_reraise(exc) == Raise(exc)

(* except Exception: the error is printed and "" is returned *)
personalization_on_error(exc) == Return("")

(* a variant that gives up on the summary when the retriever has nothing *)
personalization_outcome_needs_similar(similar_out, top_out) ==
    IF similar_out.kind = "raise" THEN personalization_on_error(similar_out.exc)
    ELSE IF top_out.kind = "raise" THEN personalization_on_error(top_out.exc)
    ELSE IF similar_out.val = <<>> THEN Return(FALLBACK)
    ELSE Return(build_personalization(similar_out.val, top_out.val))

personalization_outcome(similar_out, top_out) ==
    IF similar_out.kind = "raise" THEN personalization_on_error(similar_out.exc)
    ELSE IF top_out.kind = "raise" THEN personalization_on_error(top_out.exc)
    ELSE Return(build_personalization(similar_out.val, top_out.val))

get_personalization_context(child_id, category, context, provider, io_similar, io_top) ==
    {[out |-> personalization_outcome(sim.out, top.out),
      embed_calls |-> sim.embed_calls,
      similar |-> sim, top |-> top] :
        sim \in get_similar_contexts(child_id, category, context, 3, provider, io_similar),
        top \in get_top_phrases_in_category(child_id, category, 3, io_top)}

GetPersonalizationContext ==
    /\ last = Idle
    /\ \E child_id \in Users, category \in Categories, context \in Contexts,
       provider \in ProviderOutcomes, io_top \in SearchOutcomes :
      \E io_similar \in SearchOutcomesAfter(provider) :
        \E r \in get_personalization_context(child_id, category, context, provider,
                                             io_similar, io_top) :
            /\ last' = [op |-> "get_personalization_context", child_id |-> child_id,
                        category |-> category, context |-> context,
                        provider |-> provider, io_similar |-> io_similar,
                        io_top |-> io_top, embed_calls |-> r.embed_calls,
                        similar |-> r.similar, top |-> r.top, out |-> r.out]
            /\ UNCHANGED <<collection, points, _point_counter, hash_seed, clock,
                           stored_log, session, in_flight>>

----------------------------------------------------------------------------
(* The caller has read the outcome of its call and goes on *)

TakeResult ==
    /\ last # Idle
    /\ last' = Idle
    /\ UNCHANGED <<collection, points, _point_counter, hash_seed, clock, stored_log,
                   session, in_flight>>

----------------------------------------------------------------------------
(* store_phrase called by threads of one process, one thread per child: the *)
(* steps of a call between which another thread may run.  The call to the    *)
(* provider comes first, then the payload and the point with its id, then    *)
(* the upsert.  The threads share _point_counter, the hash seed, the clock   *)
(* and the collection.                                                       *)

(* lines 88-101: the context string and the embedding or the dummy vector *)
StoreEmbed ==
    \E child_id \in Users, category \in Categories, phrase \in Phrases,
       context \in StoreContexts, provider \in ProviderOutcomes :
        LET frame == in_flight[child_id]
            context_str == store_context_str(category, context)
            generated == generate_embedding(provider, context_str)
            embedding == IF Falsy(generated) THEN ZeroVector ELSE generated.val
        IN  /\ frame.pc = "idle"
            /\ frame.returned < MaxUserStores
            /\ in_flight' = [in_flight EXCEPT ![child_id] =
                   [pc |-> "embedded", returned |-> frame.returned,
                    category |-> category, phrase |-> phrase, context |-> context,
                    context_str |-> context_str, embedding |-> embedding]]
            /\ UNCHANGED <<collection, points, _point_counter, hash_seed, clock,
                           stored_log, last, session>>

(* lines 103-121: the payload, the next sequence number, the point *)
StorePrepare ==
    \E child_id \in Users :
        LET frame == in_flight[child_id]
            payload == Payload(child_id, frame.category, frame.phrase, frame.context,
                               frame.context_str, clock)
            counter == _get_next_point_id(_point_counter, child_id)
            point == [id |-> PointId(hash_seed, child_id, counter[child_id]),
                      vector |-> frame.embedding, payload |-> payload]
        IN  /\ frame.pc = "embedded"
            /\ clock' = clock + 1
            /\ _point_counter' = counter
            /\ in_flight' = [in_flight EXCEPT ![child_id] =
                   [pc |-> "prepared", returned |-> frame.returned, point |-> point]]
            /\ UNCHANGED <<collection, points, hash_seed, stored_log, last, session>>

(* lines 123-133: the upsert, and the return of True or False *)
StoreUpsert ==
    \E child_id \in Users, io \in IoOutcomes :
        LET frame == in_flight[child_id]
            err == UpsertError(collection, frame.point.vector, io)
        IN  /\ frame.pc = "prepared"
            /\ points' = IF err = "none" THEN client_upsert(points, frame.point)
                          ELSE points
            /\ stored_log' = IF err = "none" THEN Append(stored_log, frame.point)
                              ELSE stored_log
            /\ in_flight' = [in_flight EXCEPT ![child_id] =
                   [pc |-> "idle", returned |-> frame.returned + 1]]
            /\ UNCHANGED <<collection, _point_counter, hash_seed, clock, last,
                           session>>

----------------------------------------------------------------------------
(* The application (app.py), one browser session: st.session_state is a     *)
(* dictionary, empty before the script's first run; every run of main() is   *)
(* one action, named by the button that caused it.  The keys of the GPS      *)
(* position and of the audio file are left out.  In `last` a run leaves the  *)
(* calls it made to qdrant_manager; the next run starts when the run has     *)
(* ended (TakeResult).                                                       *)

NoText == [some |-> FALSE, val |-> ""]
Text(v) == [some |-> TRUE, val |-> v]

ModelOutcomes == {"ok", "fail"}       \* of model.generate_content: a text, or none
(* the texts of the answers that parse_model_output accepts: exactly 3      *)
OptionTexts == {<<"a", "b", "a">>, <<"b", "a", "a">>}

Emoji == "e"
Blank == {"", " "}
(* str.strip() on the strings of the model: a blank string becomes empty *)
Strip(text) == IF text \in Blank THEN "" ELSE text

AnswerOf(texts) == [i \in 1..Len(texts) |-> [text |-> texts[i], emoji |-> Emoji]]

(* the decoded answers of the generative model: three phrases with text and *)
(* emoji, or two phrases, or a phrase whose emoji or text is blank           *)
ModelAnswers ==
    {AnswerOf(texts) : texts \in OptionTexts}
        \cup {AnswerOf(<<"a", "b">>),
              [AnswerOf(<<"a", "b", "a">>) EXCEPT ![2].emoji = " "],
              [AnswerOf(<<"a", "b", "a">>) EXCEPT ![3].text = ""]}

(* a variant that accepts any number of phrases *)
parse_model_output_any_length(phrases) ==
    IF \E i \in 1..Len(phrases) :
           Strip(phrases[i].text) = "" \/ Strip(phrases[i].emoji) = ""
    THEN Raise("ValueError")
    ELSE Return([i \in 1..Len(phrases) |->
                    [text |-> Strip(phrases[i].text), emoji |-> Strip(phrases[i].emoji)]])

parse_model_output(phrases) ==
    IF Len(phrases) # 3 THEN Raise("ValueError")
    ELSE IF \E i \in 1..Len(phrases) :
                Strip(phrases[i].text) = "" \/ Strip(phrases[i].emoji) = ""
    THEN Raise("ValueError")
    ELSE Return([i \in 1..Len(phrases) |->
                    [text |-> Strip(phrases[i].text), emoji |-> Strip(phrases[i].emoji)]])

SessionDefaults ==
    [stage |-> "intro", selected_category |-> NoText, options |-> <<>>,
     last_phrase |-> NoText, play_triggered |-> FALSE]

init_session_state(ss) ==
    [key \in DOMAIN SessionDefaults \cup DOMAIN ss |->
        IF key \in DOMAIN ss THEN ss[key] ELSE SessionDefaults[key]]

(* a variant that marks personalization initialized after a failure too *)
qdrant_initialized_always(out) == TRUE

(* main: True when init_qdrant returned, False when it raised *)
qdrant_initialized_after(out) == out.kind = "return"

(* st.session_state.get("qdrant_initialized"), as a condition *)
personalization_enabled(ss) == DictGet(ss, "qdrant_initialized", FALSE)

get_current_datetime ==
    [day_of_week |-> AppSituation.day_of_week, time_of_day |-> AppSituation.time_of_day]

build_context(ss, category) ==
    [child_id |-> CHILD_ID,
     category |-> category,
     day_of_week |-> get_current_datetime.day_of_week,
     time_of_day |-> get_current_datetime.time_of_day,
     location |-> AppSituation.location,
     last_phrase |-> ss.last_phrase]

build_option_payload(phrases) ==
    [i \in 1..Len(phrases) |->
        [id |-> i - 1, text |-> phrases[i].text, emoji |-> phrases[i].emoji]]

reset_flow(ss) ==
    [ss EXCEPT !.stage = "intro", !.selected_category = NoText, !.options = <<>>,
               !.last_phrase = NoText, !.play_triggered = FALSE]

AppRun(event, calls) == [op |-> "main", event |-> event, calls |-> calls]

(* the first run: the session's defaults, then init_qdrant under try/except *)
AppStart ==
    /\ last = Idle
    /\ "qdrant_initialized" \notin DOMAIN session
    /\ \E io \in IoOutcomes :
        LET r == init_qdrant(collection, points, io)
        IN  /\ collection' = r.collection
            /\ points' = r.points
            /\ session' = ("qdrant_initialized" :> qdrant_initialized_after(r.out))
                              @@ init_session_state(session)
            /\ last' = [op |-> "main", event |-> "start", calls |-> <<"init_qdrant">>,
                        io |-> io, out |-> r.out]
    /\ UNCHANGED <<_point_counter, hash_seed, clock, stored_log, in_flight>>

(* a later run: the first run has been made and the run before has ended *)
Started == last = Idle /\ "qdrant_initialized" \in DOMAIN session

ClickSpeak ==
    /\ Started
    /\ session.stage = "intro"
    /\ session' = [session EXCEPT !.stage = "categories"]
    /\ last' = AppRun("speak_main", <<>>)
    /\ UNCHANGED <<collection, points, _point_counter, hash_seed, clock, stored_log,
                   in_flight>>

ClickCategory ==
    /\ Started
    /\ session.stage = "categories"
    /\ \E label \in Categories :
           session' = [session EXCEPT !.selected_category = Text(label),
                                      !.stage = "loading"]
    /\ last' = AppRun("cat", <<>>)
    /\ UNCHANGED <<collection, points, _point_counter, hash_seed, clock, stored_log,
                   in_flight>>

ClickBackIntro ==
    /\ Started
    /\ session.stage = "categories"
    /\ session' = reset_flow(session)
    /\ last' = AppRun("back_intro", <<>>)
    /\ UNCHANGED <<collection, points, _point_counter, hash_seed, clock, stored_log,
                   in_flight>>

(* generate_ai_options, its first part: the personalization summary is      *)
(* asked for when the session has personalization initialized                *)
ask_personalization(ss, category, context, provider, io_similar, io_top) ==
    IF personalization_enabled(ss)
    THEN {[calls |-> <<"get_personalization_context">>,
           embed_calls |-> p.embed_calls, personalization |-> p.out] :
             p \in get_personalization_context(context.child_id, category, context,
                                               provider, io_similar, io_top)}
    ELSE {[calls |-> <<>>, embed_calls |-> 0, personalization |-> Return("")]}

(* generate_ai_options, its second part: the generative model answers and   *)
(* the answer is parsed, or the call or the parsing raises and the script    *)
(* stops with no phrases                                                     *)
generate_ai_options(asked, model, answer) ==
    LET parsed == IF model = "ok" THEN parse_model_output(answer)
                  ELSE Raise("Exception")
    IN  [calls |-> asked.calls, embed_calls |-> asked.embed_calls,
         personalization |-> asked.personalization,
         phrases |-> IF parsed.kind = "return" THEN parsed.val ELSE <<>>]

(* fetch_options: the session after it, given what generate_ai_options did *)
fetch_options(ss, generated) ==
    IF generated.phrases = <<>> THEN ss
    ELSE [ss EXCEPT !.options = build_option_payload(generated.phrases),
                    !.stage = "phrases"]

(* the inputs of the personalization call count only when it is made *)
ProviderOutcomesOf(ss) ==
    IF personalization_enabled(ss) THEN ProviderOutcomes ELSE {"unused"}

SearchOutcomesOf(ss) ==
    IF personalization_enabled(ss) THEN SearchOutcomes ELSE {"unused"}

FetchOptions(event) ==
    \E provider \in ProviderOutcomesOf(session), io_top \in SearchOutcomesOf(session) :
      \E io_similar \in SearchOutcomesAfter(provider) :
        \E asked \in ask_personalization(
                         session, session.selected_category.val,
                         build_context(session, session.selected_category.val),
                         provider, io_similar, io_top) :
          \E model \in ModelOutcomes :
            \E answer \in IF model = "ok" THEN ModelAnswers ELSE {<<>>} :
              LET generated == generate_ai_options(asked, model, answer)
              IN  /\ session' = fetch_options(session, generated)
                  /\ last' = [op |-> "main", event |-> event,
                              calls |-> generated.calls,
                              enabled |-> personalization_enabled(session),
                              model |-> IF generated.phrases = <<>> THEN "fail"
                                        ELSE "ok",
                              embed_calls |-> generated.embed_calls,
                              personalization |-> generated.personalization]

(* stage "loading": main() fetches the options *)
LoadOptions ==
    /\ Started
    /\ session.stage = "loading"
    /\ FetchOptions("loading")
    /\ UNCHANGED <<collection, points, _point_counter, hash_seed, clock, stored_log,
                   in_flight>>

(* render_phrase_options: a phrase button; the selection is stored when     *)
(* personalization is initialized                                            *)
ClickPhrase ==
    /\ Started
    /\ session.stage = "phrases"
    /\ \E idx \in 1..Len(session.options) :
        LET option == session.options[idx]
            category == session.selected_category.val
            spoken == [session EXCEPT !.last_phrase = Text(option.text)]
        IN  /\ session' = [spoken EXCEPT !.stage = "voice"]
            /\ IF personalization_enabled(spoken) THEN
                   /\ clock < MaxStores
                   /\ \E provider \in ProviderOutcomes, io \in IoOutcomes :
                       LET r == store_phrase(CHILD_ID, category, option.text,
                                             build_context(spoken, category),
                                             provider, io)
                       IN  /\ points' = r.points
                           /\ _point_counter' = r.counter
                           /\ clock' = clock + 1
                           /\ stored_log' = IF r.upsert = "none"
                                            THEN Append(stored_log, r.point)
                                            ELSE stored_log
                           /\ last' = [op |-> "main", event |-> "phrase",
                                       calls |-> <<"store_phrase">>,
                                       category |-> category, phrase |-> option.text,
                                       embed_calls |-> r.embed_calls,
                                       upsert |-> r.upsert, out |-> r.out]
               ELSE
                   /\ last' = AppRun("phrase", <<>>)
                   /\ UNCHANGED <<points, _point_counter, clock, stored_log>>
    /\ UNCHANGED <<collection, hash_seed, in_flight>>

ClickNone ==
    /\ Started
    /\ session.stage = "phrases"
    /\ FetchOptions("none_btn")
    /\ UNCHANGED <<collection, points, _point_counter, hash_seed, clock, stored_log,
                   in_flight>>

ClickBackCategories ==
    /\ Started
    /\ session.stage = "phrases"
    /\ session' = [session EXCEPT !.stage = "categories"]
    /\ last' = AppRun("back_categories", <<>>)
    /\ UNCHANGED <<collection, points, _point_counter, hash_seed, clock, stored_log,
                   in_flight>>

(* a variant of "play again" that stores the spoken phrase once more *)
ClickPlayAgainStoring ==
    /\ Started
    /\ session.stage = "voice"
    /\ session.last_phrase.some /\ session.last_phrase.val # ""
    /\ session' = [session EXCEPT !.play_triggered = TRUE]
    /\ IF personalization_enabled(session) /\ clock < MaxStores THEN
           \E provider \in ProviderOutcomes, io \in IoOutcomes :
               LET category == session.selected_category.val
                   r == store_phrase(CHILD_ID, category, session.last_phrase.val,
                                     build_context(session, category), provider, io)
               IN  /\ points' = r.points
                   /\ _point_counter' = r.counter
                   /\ clock' = clock + 1
                   /\ stored_log' = IF r.upsert = "none"
                                    THEN Append(stored_log, r.point)
                                    ELSE stored_log
                   /\ last' = [op |-> "main", event |-> "play_again",
                               calls |-> <<"store_phrase">>,
                               category |-> category,
                               phrase |-> session.last_phrase.val,
                               embed_calls |-> r.embed_calls,
                               upsert |-> r.upsert, out |-> r.out]
       ELSE
           /\ last' = AppRun("play_again", <<>>)
           /\ UNCHANGED <<points, _point_counter, clock, stored_log>>
    /\ UNCHANGED <<collection, hash_seed, in_flight>>

(* render_voice_output, a phrase having been spoken *)
ClickPlayAgain ==
    /\ Started
    /\ session.stage = "voice"
    /\ session.last_phrase.some /\ session.last_phrase.val # ""
    /\ session' = [session EXCEPT !.play_triggered = TRUE]
    /\ last' = AppRun("play_again", <<>>)
    /\ UNCHANGED <<collection, points, _point_counter, hash_seed, clock, stored_log,
                   in_flight>>

ClickBackHome ==
    /\ Started
    /\ session.stage = "voice"
    /\ session.last_phrase.some /\ session.last_phrase.val # ""
    /\ session' = reset_flow(session)
    /\ last' = AppRun("back_home", <<>>)
    /\ UNCHANGED <<collection, points, _point_counter, hash_seed, clock, stored_log,
                   in_flight>>

----------------------------------------------------------------------------
(* The specification *)

LegacyCollection == [exists |-> TRUE, size |-> LegacyDim, distance |-> COSINE]

Init ==
    /\ collection \in {NoCollection, NewCollection, LegacyCollection}
    /\ points = <<>>
    /\ _point_counter = <<>>
    /\ hash_seed \in Seeds
    /\ clock = 0
    /\ stored_log = <<>>
    /\ last = Idle
    /\ session = <<>>
    /\ in_flight = NoCalls

Next ==
    \/ InitQdrant
    \/ StorePhrase
    \/ Restart
    \/ GetSimilarContexts
    \/ GetTopPhrases
    \/ GetPersonalizationContext
    \/ TakeResult

Spec == Init /\ [][Next]_vars

(* The collection's life across process restarts, without the read calls *)
NextStore ==
    \/ InitQdrant
    \/ StorePhrase
    \/ Restart
    \/ TakeResult

SpecStore == Init /\ [][NextStore]_vars

(* One process from its start on: the writes and the read calls, which look *)
(* at the collection and its points only                                    *)
NextRead ==
    \/ InitQdrant
    \/ StorePhrase
    \/ GetSimilarContexts
    \/ GetTopPhrases
    \/ GetPersonalizationContext
    \/ TakeResult

SpecRead == Init /\ [][NextRead]_vars

(* One session of the application over the collection *)
NextApp ==
    \/ AppStart
    \/ ClickSpeak
    \/ ClickCategory
    \/ ClickBackIntro
    \/ LoadOptions
    \/ ClickPhrase
    \/ ClickNone
    \/ ClickBackCategories
    \/ ClickPlayAgain
    \/ ClickBackHome
    \/ TakeResult

SpecApp == Init /\ [][NextApp]_vars

(* Concurrent store_phrase calls for the two children, after start-up *)
InitConcurrent == Init /\ collection = NewCollection

NextConcurrent ==
    \/ StoreEmbed
    \/ StorePrepare
    \/ StoreUpsert

SpecConcurrent == InitConcurrent /\ [][NextConcurrent]_vars

----------------------------------------------------------------------------
(* The ranking of get_top_phrases_in_category on its own: a fetched sample  *)
(* of phrases and a limit are drawn, and the ranking is applied to them.    *)

FetchedSamples == UNION {[1..n -> RankPhrases] : n \in 0..MaxFetch}

InitRank ==
    /\ collection = NewCollection
    /\ points = <<>>
    /\ _point_counter = <<>>
    /\ hash_seed = 0
    /\ clock = 0
    /\ stored_log = <<>>
    /\ session = <<>>
    /\ in_flight = NoCalls
    /\ \E fetched \in FetchedSamples, limit \in 1..3 :
           last = [op |-> "fetched", fetched |-> fetched, limit |-> limit]

RankFetched ==
    /\ last.op = "fetched"
    /\ last' = [op |-> "top_phrases_of", fetched |-> last.fetched,
                limit |-> last.limit,
                out |-> top_phrases_of(last.fetched, last.limit)]
    /\ UNCHANGED <<collection, points, _point_counter, hash_seed, clock, stored_log,
                   session, in_flight>>

NextRank == RankFetched

SpecRank == InitRank /\ [][NextRank]_vars

----------------------------------------------------------------------------
(* The id derivation of store_phrase on its own: a hash seed and two keys   *)
(* (child_id, sequence number) are drawn, and the id of each is derived.    *)

InitIds ==
    /\ collection = NewCollection
    /\ points = <<>>
    /\ _point_counter = <<>>
    /\ hash_seed \in Seeds
    /\ clock = 0
    /\ stored_log = <<>>
    /\ session = <<>>
    /\ in_flight = NoCalls
    /\ \E u \in Users, v \in Users, m \in 1..MaxSeq, n \in 1..MaxSeq :
           last = [op |-> "keys", u |-> u, m |-> m, v |-> v, n |-> n]

DeriveIds ==
    /\ last.op = "keys"
    /\ last' = [op |-> "point_ids", u |-> last.u, m |-> last.m,
                v |-> last.v, n |-> last.n,
                id_u |-> PointId(hash_seed, last.u, last.m),
                id_v |-> PointId(hash_seed, last.v, last.n)]
    /\ UNCHANGED <<collection, points, _point_counter, hash_seed, clock, stored_log,
                   session, in_flight>>

NextIds == DeriveIds

SpecIds == InitIds /\ [][NextIds]_vars

----------------------------------------------------------------------------
(* The context string of the two paths on its own: a category and a context *)
(* map, with any of the three keys present or missing, are drawn, and both   *)
(* functions format them.                                                    *)

ContextKeys == {"time_of_day", "day_of_week", "location"}
ContextValues == {"morning", "home"}
ContextMaps == UNION {[keys -> ContextValues] : keys \in SUBSET ContextKeys}

InitFormat ==
    /\ collection = NewCollection
    /\ points = <<>>
    /\ _point_counter = <<>>
    /\ hash_seed = 0
    /\ clock = 0
    /\ stored_log = <<>>
    /\ session = <<>>
    /\ in_flight = NoCalls
    /\ \E category \in Categories, context \in ContextMaps :
           last = [op |-> "to_format", category |-> category, context |-> context]

FormatContext ==
    /\ last.op = "to_format"
    /\ last' = [op |-> "context_str", category |-> last.category,
                context |-> last.context,
                stored |-> store_context_str(last.category, last.context),
                queried |-> query_context_str(last.category, last.context)]
    /\ UNCHANGED <<collection, points, _point_counter, hash_seed, clock, stored_log,
                   session, in_flight>>

NextFormat == FormatContext

SpecFormat == InitFormat /\ [][NextFormat]_vars

----------------------------------------------------------------------------
(* The aggregator over a collection that earlier processes have filled: the *)
(* collection holds up to MaxRecords phrases that one child selected in one  *)
(* category, under distinct ids, and the aggregator is called.               *)

FilledRecord(phrase, now) ==
    [vector |-> ProviderVector(store_context_str(CategorySeq[1], MorningContext)),
     payload |-> Payload(CHILD_ID, CategorySeq[1], phrase, MorningContext,
                         store_context_str(CategorySeq[1], MorningContext), now)]

InitAggregate ==
    /\ collection = NewCollection
    /\ _point_counter = <<>>
    /\ hash_seed = 0
    /\ stored_log = <<>>
    /\ last = Idle
    /\ session = <<>>
    /\ in_flight = NoCalls
    /\ \E n \in 0..MaxRecords :
        \E phrases \in [0..(n - 1) -> Phrases] :
           /\ points = [id \in 0..(n - 1) |-> FilledRecord(phrases[id], id)]
           /\ clock = n

NextAggregate ==
    \/ GetTopPhrases
    \/ TakeResult

SpecAggregate == InitAggregate /\ [][NextAggregate]_vars

----------------------------------------------------------------------------
(* The sequence numbers alone: one process, from its start, and the calls   *)
(* of _get_next_point_id that the store_phrase calls of the children make,   *)
(* in any order.  `last` keeps the number returned and, for every child, the *)
(* number of calls made for it.                                              *)

InitSequence ==
    /\ collection = NewCollection
    /\ points = <<>>
    /\ _point_counter = <<>>
    /\ hash_seed \in Seeds
    /\ clock = 0
    /\ stored_log = <<>>
    /\ session = <<>>
    /\ in_flight = NoCalls
    /\ last = [op |-> "process_start", calls |-> [child_id \in Users |-> 0]]

NextPointId ==
    \E child_id \in Users :
        LET counter == _get_next_point_id(_point_counter, child_id)
        IN  /\ last.calls[child_id] < MaxCalls
            /\ _point_counter' = counter
            /\ last' = [op |-> "_get_next_point_id", child_id |-> child_id,
                        returned |-> counter[child_id],
                        calls |-> [last.calls EXCEPT ![child_id] = @ + 1]]
            /\ UNCHANGED <<collection, points, hash_seed, clock, stored_log, session,
                           in_flight>>

NextSequence == NextPointId

SpecSequence == InitSequence /\ [][NextSequence]_vars

----------------------------------------------------------------------------
(* Properties *)

RecordsOf(child_id) == {id \in DOMAIN points : points[id].payload.child_id = child_id}

RecordsIn(child_id, category) ==
    {id \in RecordsOf(child_id) : points[id].payload.category = category}

LastStored == stored_log[Len(stored_log)]

(* C1: user isolation.  Every entry returned by get_similar_contexts(U, ...) *)
(* and every phrase returned by get_top_phrases_in_category(U, C) comes from *)
(* a stored record whose child_id is U: the points the search handed back    *)
(* all belong to U, and each returned entry or phrase is that of one of them.*)
UserIsolation ==
    /\ last.op = "get_similar_contexts" =>
        /\ \A i \in 1..Len(last.hits) : last.hits[i] \in RecordsOf(last.child_id)
        /\ Len(last.out.val) = Len(last.hits)
        /\ \A i \in 1..Len(last.out.val) :
               LET payload == points[last.hits[i]].payload
               IN  /\ last.out.val[i].phrase = payload.phrase
                   /\ last.out.val[i].category = payload.category
                   /\ last.out.val[i].time_of_day = payload.time_of_day
    /\ last.op = "get_top_phrases_in_category" =>
        /\ \A i \in 1..Len(last.hits) : last.hits[i] \in RecordsOf(last.child_id)
        /\ \A i \in 1..Len(last.out.val) :
               \E id \in RecordsOf(last.child_id) :
                   points[id].payload.phrase = last.out.val[i]

(* a retrieval that answered a record while another user's record is stored *)
WitnessUserIsolation ==
    /\ last.op = "get_similar_contexts"
    /\ Len(last.out.val) = 1
    /\ \E id \in DOMAIN points : points[id].payload.child_id # last.child_id

(* C2: read-after-write.  With a working provider and a working search, a   *)
(* retrieval for the user of the most recent completed store_phrase answers  *)
(* a non-empty sequence, and when that record is the user's only one its     *)
(* first entry carries the stored phrase.                                    *)
ReadAfterWrite ==
    ( /\ last.op = "get_similar_contexts"
      /\ last.provider = "ok"
      /\ last.search = "ok"
      /\ stored_log # <<>>
      /\ LastStored.payload.child_id = last.child_id )
    => /\ last.out.kind = "return"
       /\ last.out.val # <<>>
       /\ RecordsOf(last.child_id) = {LastStored.id} =>
              last.out.val[1].phrase = LastStored.payload.phrase

(* the phrase just stored, alone for its user, comes back first *)
WitnessReadAfterWrite ==
    /\ last.op = "get_similar_contexts"
    /\ last.provider = "ok"
    /\ last.search = "ok"
    /\ stored_log # <<>>
    /\ LastStored.payload.child_id = last.child_id
    /\ LastStored.payload.category = last.category
    /\ LastStored.payload.context_str = query_context_str(last.category, last.context)
    /\ RecordsOf(last.child_id) = {LastStored.id}
    /\ last.out.val[1].phrase = LastStored.payload.phrase

(* C3: degradation transparency.  When the provider raises or answers an    *)
(* empty embedding, get_similar_contexts returns the empty sequence, raises  *)
(* nothing and issues no search.                                             *)
DegradationTransparency ==
    (last.op = "get_similar_contexts" /\ last.provider \in {"raise", "empty"})
    => /\ last.out = Return(<<>>)
       /\ last.search = "none"
       /\ last.hits = <<>>

(* a degraded retrieval for a user who has stored records *)
WitnessDegradationTransparency ==
    /\ last.op = "get_similar_contexts"
    /\ last.provider = "raise"
    /\ RecordsOf(last.child_id) # {}
    /\ last.out.val = <<>>

(* C4 as stated: for a user and category with zero stored records,          *)
(* get_personalization_context returns exactly the fallback string.          *)
FallbackForEmptyCategory ==
    (last.op = "get_personalization_context"
         /\ RecordsIn(last.child_id, last.category) = {})
    => last.out = Return(FALLBACK)

(* C4: fallback.  For a user with zero stored records in any category,      *)
(* get_personalization_context returns exactly the fallback string, with a   *)
(* working or a degraded provider.                                           *)
FallbackForNewUser ==
    (last.op = "get_personalization_context" /\ RecordsOf(last.child_id) = {})
    => last.out = Return(FALLBACK)

(* the fallback for a new user while another user has records and every     *)
(* collaborator works                                                        *)
WitnessFallbackForNewUser ==
    /\ last.op = "get_personalization_context"
    /\ RecordsOf(last.child_id) = {}
    /\ points # <<>>
    /\ last.provider = "ok"
    /\ last.similar.search = "ok"
    /\ last.top.search = "ok"
    /\ last.out.val = FALLBACK

(* C5: get_personalization_context never raises.  Whatever the provider and *)
(* the store do, it returns a string; and whatever error reaches its handler *)
(* becomes the empty string.                                                 *)
InnerOutcomes ==
    {Return(<<>>), Return(<<"a">>), Raise("TypeError"), Raise("StoreUnavailable")}

PersonalizationNeverRaises ==
    /\ last.op = "get_personalization_context" =>
           last.out.kind = "return" /\ last.out.val \in STRING
    /\ \A similar_out \in InnerOutcomes, top_out \in InnerOutcomes :
           (similar_out.kind = "raise" \/ top_out.kind = "raise") =>
               personalization_outcome(similar_out, top_out) = Return("")

(* a summary asked for while the provider raises and the store fails *)
WitnessPersonalizationNeverRaises ==
    /\ last.op = "get_personalization_context"
    /\ last.provider = "raise"
    /\ last.io_top = "fail"
    /\ last.out.kind = "return"

(* C6: frequency ranking.  The result of the ranking holds distinct phrases *)
(* of the fetched sample, by descending number of occurrences, equal counts  *)
(* in first-seen order, cut to the limit, and no phrase left out ranks ahead *)
(* of one that is in; for [a, a, b, a, c] and limit 2 it is [a, b].          *)
Occurrences(fetched, phrase) ==
    Cardinality({i \in DOMAIN fetched : fetched[i] = phrase})

FirstIndex(fetched, phrase) ==
    CHOOSE i \in DOMAIN fetched :
        fetched[i] = phrase /\ \A j \in 1..(i - 1) : fetched[j] # phrase

RanksAhead(fetched, p, q) ==
    \/ Occurrences(fetched, p) > Occurrences(fetched, q)
    \/ /\ Occurrences(fetched, p) = Occurrences(fetched, q)
       /\ FirstIndex(fetched, p) < FirstIndex(fetched, q)

FrequencyRanking ==
    last.op = "top_phrases_of" =>
        LET fetched == last.fetched
            result == last.out
        IN  /\ Len(result) = Min(last.limit, Cardinality(Range(fetched)))
            /\ Range(result) \subseteq Range(fetched)
            /\ \A i, j \in 1..Len(result) :
                   i < j => RanksAhead(fetched, result[i], result[j])
            /\ \A p \in Range(fetched) \ Range(result) :
                   \A i \in 1..Len(result) : RanksAhead(fetched, result[i], p)
            /\ (fetched = <<"a", "a", "b", "a", "c">> /\ last.limit = 2) =>
                   result = <<"a", "b">>

(* the example of the specification *)
WitnessFrequencyRanking ==
    /\ last.op = "top_phrases_of"
    /\ last.fetched = <<"a", "a", "b", "a", "c">>
    /\ last.limit = 2
    /\ last.out = <<"a", "b">>

(* C7: idempotent schema creation.  init_qdrant on a collection that exists *)
(* with the requested configuration, the storage working, returns without    *)
(* raising and leaves the collection and every stored record as they were.   *)
IdempotentInit ==
    (last.op = "init_qdrant" /\ last.io = "ok" /\ last.before = NewCollection)
    => /\ last.out.kind = "return"
       /\ collection = last.before
       /\ points = last.points_before

(* init_qdrant called again over a collection that holds records *)
WitnessIdempotentInit ==
    /\ last.op = "init_qdrant"
    /\ last.io = "ok"
    /\ last.before = NewCollection
    /\ last.points_before # <<>>
    /\ points = last.points_before

(* C8 as stated: init_qdrant over a collection of another dimension or      *)
(* metric fails with SchemaMismatch.                                          *)
SchemaMismatchSurfaced ==
    ( /\ last.op = "init_qdrant"
      /\ last.io = "ok"
      /\ last.before.exists
      /\ (last.before.size # EMBEDDING_DIM \/ last.before.distance # COSINE) )
    => last.out.kind = "raise" /\ last.out.exc = "SchemaMismatch"

(* C9 as stated: a similarity search whose query vector has another length  *)
(* than the collection's dimension raises DimensionMismatch to the caller     *)
(* and leaves the store unchanged.                                            *)
DimensionMismatchRaised ==
    (last.op = "get_similar_contexts" /\ last.search = "DimensionMismatch")
    => last.out.kind = "raise" /\ last.out.exc = "DimensionMismatch"

(* C10 as stated: every point of a completed store_phrase is still in the   *)
(* collection with its original fields, and the collection holds as many      *)
(* records as store_phrase calls completed.                                   *)
AppendOnly ==
    /\ Cardinality(DOMAIN points) = Len(stored_log)
    /\ \A i \in 1..Len(stored_log) :
           /\ stored_log[i].id \in DOMAIN points
           /\ points[stored_log[i].id] =
                  [vector |-> stored_log[i].vector, payload |-> stored_log[i].payload]

(* C11 as stated: for two distinct users U and V and any sequence numbers   *)
(* m and n, the id derived for (U, m) differs from the id derived for (V, n). *)
CrossUserIdsDiffer ==
    (last.op = "point_ids" /\ last.u # last.v) => last.id_u # last.id_v

(* C12: a degraded insert still stores.  When the provider raises or        *)
(* answers an empty embedding and the upsert reaches a working store whose   *)
(* collection has the configured dimension, store_phrase returns True and    *)
(* the collection holds the record under its id, with the all-zero vector of *)
(* the collection's dimension and every metadata field of the call.          *)
DegradedInsertStores ==
    ( /\ last.op = "store_phrase"
      /\ last.provider \in {"raise", "empty"}
      /\ last.io = "ok"
      /\ collection = NewCollection )
    => /\ last.out = Return(TRUE)
       /\ last.upsert = "none"
       /\ last.point.id \in DOMAIN points
       /\ LET stored == points[last.point.id]
          IN  /\ Len(stored.vector) = collection.size
              /\ \A i \in 1..Len(stored.vector) : stored.vector[i] = 0
              /\ DOMAIN stored.payload =
                     {"child_id", "category", "phrase", "timestamp",
                      "time_of_day", "day_of_week", "location", "context_str"}
              /\ stored.payload.child_id = last.child_id
              /\ stored.payload.category = last.category
              /\ stored.payload.phrase = last.phrase
              /\ stored.payload.timestamp = clock - 1
              /\ stored.payload.time_of_day =
                     DictGet(last.context, "time_of_day", "unknown")
              /\ stored.payload.day_of_week =
                     DictGet(last.context, "day_of_week", "unknown")
              /\ stored.payload.location =
                     DictGet(last.context, "location", "unknown")
              /\ stored.payload.context_str =
                     store_context_str(last.category, last.context)

(* a phrase stored while the provider raised, now in the collection with    *)
(* the zero vector                                                           *)
WitnessDegradedInsertStores ==
    /\ last.op = "store_phrase"
    /\ last.provider = "raise"
    /\ last.out = Return(TRUE)
    /\ last.point.id \in DOMAIN points
    /\ points[last.point.id].vector = ZeroVector
    /\ points[last.point.id].payload.phrase = last.phrase

(* C13 as stated: a storage failure raised while init_qdrant ensures the    *)
(* collection or while store_phrase inserts a record reaches the caller as   *)
(* that error; it is not swallowed inside the function.                      *)
WriteFailuresPropagate ==
    /\ (last.op = "init_qdrant" /\ last.io = "fail")
           => (last.out.kind = "raise" /\ last.out.exc = "StoreUnavailable")
    /\ (last.op = "store_phrase" /\ last.io = "fail")
           => (last.out.kind = "raise" /\ last.out.exc = "StoreUnavailable")

(* C14: store failures on the read path degrade to empty.  When the search  *)
(* of the store fails (I/O failure, collection missing, no search method),   *)
(* get_similar_contexts and get_top_phrases_in_category each return the      *)
(* empty sequence and raise nothing.                                         *)
StoreFailures == {"StoreUnavailable", "CollectionNotFound", "AttributeError"}

ReadFailuresDegradeToEmpty ==
    ( /\ last.op \in {"get_similar_contexts", "get_top_phrases_in_category"}
      /\ last.search \in StoreFailures )
    => last.out = Return(<<>>)

(* the aggregator answering [] on an I/O failure although the user has      *)
(* records in the category                                                   *)
WitnessReadFailuresDegradeToEmpty ==
    /\ last.op = "get_top_phrases_in_category"
    /\ last.io = "fail"
    /\ last.search = "StoreUnavailable"
    /\ RecordsIn(last.child_id, last.category) # {}
    /\ last.out = Return(<<>>)

(* C15: category scoping of the aggregator.  Every phrase returned by       *)
(* get_top_phrases_in_category(U, C) is the phrase of a stored record of     *)
(* child U in category C, the search hands back such records only, and when  *)
(* U has no record in C (records in other categories or none) the result is  *)
(* the empty sequence, returned and not raised.                              *)
CategoryScoping ==
    last.op = "get_top_phrases_in_category" =>
        /\ last.out.kind = "return"
        /\ \A i \in 1..Len(last.hits) :
               last.hits[i] \in RecordsIn(last.child_id, last.category)
        /\ \A i \in 1..Len(last.out.val) :
               \E id \in RecordsIn(last.child_id, last.category) :
                   points[id].payload.phrase = last.out.val[i]
        /\ RecordsIn(last.child_id, last.category) = {} => last.out = Return(<<>>)

(* a working search for a category in which the user has no record, while   *)
(* the user has a record in another category                                 *)
WitnessCategoryScoping ==
    /\ last.op = "get_top_phrases_in_category"
    /\ last.search = "ok"
    /\ RecordsOf(last.child_id) # {}
    /\ RecordsIn(last.child_id, last.category) = {}
    /\ last.out = Return(<<>>)

(* C16: a start-up failure disables personalization only.  When init_qdrant *)
(* raises in the first run, the run ends with qdrant_initialized False and    *)
(* the intro stage shown; from a state with qdrant_initialized False every    *)
(* step keeps it False and no run calls store_phrase or                      *)
(* get_personalization_context; and a loading run whose generative model     *)
(* answers still reaches the phrases stage with three options.               *)
PersonalizationOff(ss) ==
    "qdrant_initialized" \in DOMAIN ss /\ ss.qdrant_initialized = FALSE

StartupFailureDisablesPersonalization ==
    [][ /\ (last'.op = "main" /\ last'.event = "start" /\ last'.out.kind = "raise")
            => (PersonalizationOff(session') /\ session'.stage = "intro")
        /\ PersonalizationOff(session)
            => /\ PersonalizationOff(session')
               /\ last'.op = "main" =>
                      \A i \in 1..Len(last'.calls) :
                          last'.calls[i] \notin {"store_phrase",
                                                "get_personalization_context"}
               /\ (last'.op = "main" /\ last'.event = "loading"
                       /\ last'.model = "ok")
                      => (session'.stage = "phrases" /\ Len(session'.options) = 3)
      ]_vars

(* a phrase selected and spoken in a session whose start-up failed: nothing *)
(* was stored                                                                *)
WitnessStartupFailureDisablesPersonalization ==
    /\ PersonalizationOff(session)
    /\ last.op = "main"
    /\ last.event = "phrase"
    /\ last.calls = <<>>
    /\ session.stage = "voice"
    /\ session.last_phrase.some
    /\ points = <<>>

(* C17 as stated: whatever the interleaving of the store_phrase calls of    *)
(* two different users, once all calls have returned no insert is lost or    *)
(* overwritten: each user's records in the collection are exactly the        *)
(* points of that user's completed upserts, one record for each.             *)
InsertsOf(child_id) ==
    {i \in 1..Len(stored_log) : stored_log[i].payload.child_id = child_id}

ConcurrentInsertsKept ==
    (\A child_id \in Users : in_flight[child_id].pc = "idle")
    => \A child_id \in Users :
           /\ Cardinality(RecordsOf(child_id)) = Cardinality(InsertsOf(child_id))
           /\ \A i \in InsertsOf(child_id) :
                  /\ stored_log[i].id \in RecordsOf(child_id)
                  /\ points[stored_log[i].id].payload = stored_log[i].payload
                  /\ points[stored_log[i].id].vector = stored_log[i].vector

(* C18: ranked, bounded retrieval.  get_similar_contexts returns, without   *)
(* raising, at most `limit` entries; they are the points the store handed    *)
(* back, in the store's order, each with the score of its point against the  *)
(* query vector, and the scores do not increase along the sequence; with no  *)
(* point in the store the result is the empty sequence.                      *)
RankedBoundedRetrieval ==
    last.op = "get_similar_contexts" =>
        /\ last.out.kind = "return"
        /\ Len(last.out.val) <= last.limit
        /\ Len(last.out.val) = Len(last.hits)
        /\ \A i \in 1..Len(last.out.val) :
               /\ last.out.val[i].phrase = points[last.hits[i]].payload.phrase
               /\ last.out.val[i].similarity_score =
                      CosineScore(last.query_vector, points[last.hits[i]].vector)
        /\ \A i, j \in 1..Len(last.out.val) :
               i < j => last.out.val[i].similarity_score
                           >= last.out.val[j].similarity_score
        /\ points = <<>> => last.out = Return(<<>>)

(* two records of different score for the user and a limit of one: the      *)
(* better one alone comes back                                               *)
WitnessRankedBoundedRetrieval ==
    /\ last.op = "get_similar_contexts"
    /\ last.limit = 1
    /\ Len(last.out.val) = 1
    /\ \E id \in RecordsOf(last.child_id) :
           CosineScore(last.query_vector, points[id].vector)
               < last.out.val[1].similarity_score

(* C19 as stated: the 'In similar situations' sentence of                   *)
(* get_personalization_context lists the phrases of the matched records in   *)
(* their order (descending score), each distinct phrase once, at its first   *)
(* occurrence.                                                               *)
RECURSIVE KeepFirst(_)
KeepFirst(phrases) ==
    IF phrases = <<>> THEN <<>>
    ELSE LET front == KeepFirst(SubSeq(phrases, 1, Len(phrases) - 1))
         IN  IF phrases[Len(phrases)] \in Range(front) THEN front
             ELSE Append(front, phrases[Len(phrases)])

SimilarPhrasesDeduplicated ==
    (last.op = "get_personalization_context" /\ last.similar.out.val # <<>>)
    => LET matched == last.similar.out.val
           listed == KeepFirst([i \in 1..Len(matched) |-> matched[i].phrase])
           frequent == IF last.top.out.val # <<>>
                       THEN FrequentSentence(last.top.out.val) ELSE ""
       IN  last.out = Return(SimilarSentence(listed) \o frequent)

(* C20: a single embedding attempt.  Each store_phrase call, each           *)
(* get_similar_contexts call and each get_personalization_context call as a  *)
(* whole asks the embedding provider at most once, also when the provider    *)
(* raises or answers an empty embedding: a failure is not retried.           *)
SingleEmbeddingAttempt ==
    last.op \in {"store_phrase", "get_similar_contexts",
                 "get_personalization_context"}
    => last.embed_calls <= 1

(* a summary asked for while the provider raises: one attempt, and the      *)
(* frequency search still made                                               *)
WitnessSingleEmbeddingAttempt ==
    /\ last.op = "get_personalization_context"
    /\ last.provider = "raise"
    /\ last.embed_calls = 1
    /\ last.similar.out = Return(<<>>)
    /\ last.top.search = "ok"

(* C21: shared context formatting.  For every category and every context    *)
(* map, keys missing or not, the context string built by store_phrase is     *)
(* the one built by get_similar_contexts; a missing key reads "unknown".     *)
SharedContextFormatting ==
    last.op = "context_str" =>
        /\ last.stored = last.queried
        /\ last.context = EmptyContext =>
               last.queried = "Category: " \o last.category
                   \o ". Time of day: unknown. Day: unknown. Location: unknown"

(* a map with the location alone: both paths default the two other keys *)
WitnessSharedContextFormatting ==
    /\ last.op = "context_str"
    /\ last.category = "Help & Safety"
    /\ DOMAIN last.context = {"location"}
    /\ last.context.location = "home"
    /\ last.stored =
           "Category: Help & Safety. Time of day: unknown. Day: unknown. Location: home"
    /\ last.queried = last.stored

(* C22: summary composition.  get_personalization_context returns the fixed *)
(* fallback exactly when the retriever yielded no phrase and the aggregator  *)
(* yielded no phrase; otherwise the result is made of the sentences alone,   *)
(* the similar-situations sentence (when the retriever yielded phrases)      *)
(* before the frequent-phrases sentence (when the aggregator did).           *)
RetrievedPhrases(matched) ==
    LET named == SelectSeq(matched, LAMBDA entry : entry.phrase # "")
    IN  [i \in 1..Len(named) |-> named[i].phrase]

SummaryComposition ==
    last.op = "get_personalization_context" =>
        LET retrieved == RetrievedPhrases(last.similar.out.val)
            frequent == last.top.out.val
            neither == retrieved = <<>> /\ frequent = <<>>
        IN  /\ neither <=> last.out.val = FALLBACK
            /\ (retrieved # <<>> /\ frequent = <<>>)
                   => last.out.val = SimilarSentence(retrieved)
            /\ (retrieved = <<>> /\ frequent # <<>>)
                   => last.out.val = FrequentSentence(frequent)
            /\ (retrieved # <<>> /\ frequent # <<>>)
                   => last.out.val =
                          SimilarSentence(retrieved) \o FrequentSentence(frequent)

(* both signals have content: the two sentences in their order *)
WitnessSummaryComposition ==
    /\ last.op = "get_personalization_context"
    /\ last.similar.out.val # <<>>
    /\ last.top.out.val # <<>>
    /\ last.out.val =
           SimilarSentence(RetrievedPhrases(last.similar.out.val))
               \o FrequentSentence(last.top.out.val)
    /\ last.out.val # FALLBACK

(* C23: independence of the two signals.  When the retriever answers        *)
(* nothing (provider degraded, its search failed, or no match) while the     *)
(* user has records in the category and the aggregator's search works, the   *)
(* summary is the frequent-phrases sentence; when the aggregator answers     *)
(* nothing while the retriever has matches, the summary is the               *)
(* similar-situations sentence.                                              *)
SignalsIndependent ==
    last.op = "get_personalization_context" =>
        /\ ( /\ last.similar.out.val = <<>>
              /\ RecordsIn(last.child_id, last.category) # {}
              /\ last.top.search = "ok" )
            => /\ last.top.out.val # <<>>
               /\ last.out.val = FrequentSentence(last.top.out.val)
        /\ (last.top.out.val = <<>> /\ last.similar.out.val # <<>>)
            => last.out.val =
                   SimilarSentence([i \in 1..Len(last.similar.out.val) |->
                                       last.similar.out.val[i].phrase])

(* the provider raises, the user has a record in the category, and the      *)
(* summary still has the frequent-phrases sentence                           *)
WitnessSignalsIndependent ==
    /\ last.op = "get_personalization_context"
    /\ last.provider = "raise"
    /\ last.similar.out.val = <<>>
    /\ RecordsIn(last.child_id, last.category) # {}
    /\ last.top.search = "ok"
    /\ last.out.val = FrequentSentence(last.top.out.val)

(* C24 as stated: in the result of get_similar_contexts with a working      *)
(* provider, a record stored with the all-zero vector is never placed ahead  *)
(* of a record of the same user stored with a real embedding.                *)
ZeroVectorDeprioritized ==
    (last.op = "get_similar_contexts" /\ last.provider = "ok" /\ last.search = "ok")
    => \A i, j \in 1..Len(last.hits) :
           i < j => ~ ( /\ points[last.hits[i]].vector = ZeroVector
                        /\ points[last.hits[j]].vector # ZeroVector )

(* C25: oversampled aggregation.  get_top_phrases_in_category(U, C, limit)  *)
(* fetches at most limit*5 records and returns at most `limit` phrases, none *)
(* repeated; when U has at most limit*5 records in C, the result holds the   *)
(* most frequent phrases of all of U's records in C: as many as the limit    *)
(* allows, by non-increasing count, none left out that is more frequent      *)
(* than one that is in.                                                      *)
CountIn(records, phrase) ==
    Cardinality({id \in records : points[id].payload.phrase = phrase})

StoreCalls(run) ==
    IF run.op = "main"
    THEN Cardinality({i \in 1..Len(run.calls) : run.calls[i] = "store_phrase"})
    ELSE 0

Selecting ==
    /\ last = Idle
    /\ "qdrant_initialized" \in DOMAIN session
    /\ session.qdrant_initialized
    /\ session.stage = "phrases"
    /\ session'.stage = "voice"

OneInsertPerSelection ==
    [][ /\ Selecting =>
            /\ StoreCalls(last') = 1
            /\ clock' = clock + 1
            /\ last'.phrase = session'.last_phrase.val
            /\ \E idx \in 1..Len(session.options) :
                   session.options[idx].text = last'.phrase
            /\ last'.category = session.selected_category.val
            /\ last'.upsert = "none" =>
                   LET payload == stored_log'[Len(stored_log')].payload
                   IN  /\ Len(stored_log') = Len(stored_log) + 1
                       /\ payload.child_id = CHILD_ID
                       /\ payload.phrase = session'.last_phrase.val
                       /\ payload.category = session.selected_category.val
        /\ ~Selecting =>
            /\ StoreCalls(last') = 0
            /\ clock' = clock
            /\ points' = points
            /\ _point_counter' = _point_counter
            /\ stored_log' = stored_log
      ]_vars

(* the second selection of a session, stored as the collection's second     *)
(* record                                                                    *)
WitnessOneInsertPerSelection ==
    /\ last.op = "main"
    /\ last.event = "phrase"
    /\ last.calls = <<"store_phrase">>
    /\ last.upsert = "none"
    /\ session.stage = "voice"
    /\ Len(stored_log) = 2
    /\ stored_log[2].payload.phrase = session.last_phrase.val
    /\ stored_log[2].payload.category = session.selected_category.val

(* C27: the read operations are side-effect free.  A call of                *)
(* get_similar_contexts, get_top_phrases_in_category or                      *)
(* get_personalization_context, whether it succeeds, degrades or catches an  *)
(* error, leaves the collection, its records and the per-user sequence       *)
(* counters as they were.                                                    *)
ReadOps ==
    {"get_similar_contexts", "get_top_phrases_in_category",
     "get_personalization_context"}

ReadsSideEffectFree ==
    [][ (last = Idle /\ last'.op \in ReadOps)
        => /\ points' = points
           /\ _point_counter' = _point_counter
           /\ collection' = collection
           /\ stored_log' = stored_log
      ]_vars

(* a retrieval whose search failed, made over a collection with records and *)
(* counters                                                                  *)
WitnessReadsSideEffectFree ==
    /\ last.op = "get_similar_contexts"
    /\ last.search = "StoreUnavailable"
    /\ last.out.val = <<>>
    /\ Cardinality(DOMAIN points) = 2
    /\ DOMAIN _point_counter # {}

(* C28: the outcome of a failed insert.  store_phrase returns True exactly  *)
(* when the upsert completed, and the point is then in the collection; when  *)
(* the upsert raises it returns False and the collection holds the records   *)
(* it held before the call; in both cases the child's sequence counter has   *)
(* advanced by one and no other child's counter has changed.                 *)
CounterOf(counter, child_id) ==
    IF child_id \in DOMAIN counter THEN counter[child_id] ELSE 0

FailedInsertOutcome ==
    [][ (last = Idle /\ last'.op = "store_phrase")
        => /\ last'.out.kind = "return"
           /\ last'.out.val <=> last'.upsert = "none"
           /\ last'.upsert = "none" =>
                  /\ last'.point.id \in DOMAIN points'
                  /\ points'[last'.point.id].payload = last'.point.payload
           /\ last'.upsert # "none" =>
                  /\ last'.out.val = FALSE
                  /\ points' = points
           /\ CounterOf(_point_counter', last'.child_id)
                  = CounterOf(_point_counter, last'.child_id) + 1
           /\ \A other \in Users \ {last'.child_id} :
                  CounterOf(_point_counter', other) = CounterOf(_point_counter, other)
      ]_vars

(* a second insert of a child failed: its counter stands at 2, the          *)
(* collection holds the first record alone                                   *)
WitnessFailedInsertOutcome ==
    /\ last.op = "store_phrase"
    /\ last.upsert = "StoreUnavailable"
    /\ last.out.val = FALSE
    /\ CounterOf(_point_counter, last.child_id) = 2
    /\ Cardinality(DOMAIN points) = 1
    /\ RecordsOf(last.child_id) = DOMAIN points

(* C29: the stages of the session.  The stage is always one of intro,       *)
(* categories, loading, phrases, voice; in the stage "phrases" the options   *)
(* are exactly three, with the ids 0, 1, 2 and a non-empty text and emoji    *)
(* each; in the stage "voice" last_phrase is set, so that                    *)
(* render_voice_output never goes back to "phrases"; and a run that called   *)
(* reset_flow ends in the stage "intro" with no options and no last_phrase.  *)
Stages == {"intro", "categories", "loading", "phrases", "voice"}

ResetEvents == {"back_intro", "back_home"}

UiStageInvariant ==
    "stage" \in DOMAIN session =>
        /\ session.stage \in Stages
        /\ session.stage = "phrases" =>
               /\ Len(session.options) = 3
               /\ \A i \in 1..3 :
                      /\ session.options[i].id = i - 1
                      /\ session.options[i].text # ""
                      /\ session.options[i].emoji # ""
        /\ session.stage = "voice" =>
               (session.last_phrase.some /\ session.last_phrase.val # "")
        /\ (last.op = "main" /\ last.event \in ResetEvents) =>
               /\ session.stage = "intro"
               /\ session.options = <<>>
               /\ session.last_phrase = NoText

(* the phrases stage reached a second time, after a phrase was spoken and   *)
(* the flow was reset                                                        *)
WitnessUiStageInvariant ==
    /\ "stage" \in DOMAIN session
    /\ session.stage = "phrases"
    /\ Len(session.options) = 3
    /\ last.op = "main"
    /\ last.event = "loading"
    /\ points # <<>>

(* C30: the sequence of a child.  Within one process the calls of           *)
(* _get_next_point_id for one child return 1, 2, 3, ...: the k-th call of a  *)
(* child returns k, one more than the call before, whatever the calls for    *)
(* other children in between; and a call for one child leaves the counter    *)
(* of every other child as it was.                                           *)
PerUserSequence ==
    [][ last'.op = "_get_next_point_id" =>
          /\ last'.returned = last'.calls[last'.child_id]
          /\ last'.returned = CounterOf(_point_counter, last'.child_id) + 1
          /\ CounterOf(_point_counter', last'.child_id) = last'.returned
          /\ \A other \in Users \ {last'.child_id} :
                 CounterOf(_point_counter', other) = CounterOf(_point_counter, other)
      ]_vars

(* a child has drawn its third number, the other child standing at two *)
WitnessPerUserSequence ==
    /\ last.op = "_get_next_point_id"
    /\ last.returned = 3
    /\ \E other \in Users \ {last.child_id} : CounterOf(_point_counter, other) = 2

====
